---- MODULE Spec2Model ----
(***************************************************************************)
(* Model of finance_assistant.py: the FinanceData ledger (income, savings, *)
(* savings goal, deficit, categorised expenses), its text snapshot         *)
(* finance_data.txt and its SQLite mirror finance_data.db.                 *)
(*                                                                         *)
(* Text is modelled as sequences of one-character strings so that writing  *)
(* the snapshot and parsing it back are two different computations.        *)
(* Amounts are whole-valued floats; f"{x}" prints them as "N.0".           *)
(***************************************************************************)
EXTENDS Integers, Sequences, FiniteSets, Bags, TLC

\* ---------------------------------------------------------------- bounds
\* add_income is offered while income stays within MaxIncome, add_expense
\* while the sum of all expenses stays within MaxTotal
MaxIncome == 2
MaxTotal == 2

\* ---------------------------------------------------------------- inputs
AmountInputs == {-1, 0, 1, 2}
GoalInputs == {-1, 0, 1}
Categories == { <<"A">>, <<"A", ",", " ", "B">> }
Descriptions == { <<"x">> }

\* ------------------------------------------------------------ text tools
Digits == <<"0", "1", "2", "3", "4", "5", "6", "7", "8", "9">>

IsDigit(ch) == \E i \in 1..10 : Digits[i] = ch

DigitVal(ch) == (CHOOSE i \in 1..10 : Digits[i] = ch) - 1

RECURSIVE NatStr(_)
NatStr(n) ==
    IF n < 10 THEN <<Digits[n + 1]>>
    ELSE NatStr(n \div 10) \o <<Digits[(n % 10) + 1]>>

\* f"{x}" for a whole-valued float x.  (An int 0, the default and the clamped
\* value, prints as "0"; float() reads "0" and "0.0" as the same number.)
FloatStr(x) ==
    IF x < 0 THEN <<"-">> \o NatStr(0 - x) \o <<".", "0">>
    ELSE NatStr(x) \o <<".", "0">>

RECURSIVE Strip(_)
Strip(s) ==
    IF s = <<>> THEN s
    ELSE IF Head(s) = " " THEN Strip(Tail(s))
    ELSE IF s[Len(s)] = " " THEN Strip(SubSeq(s, 1, Len(s) - 1))
    ELSE s

StartsWith(s, p) == Len(s) >= Len(p) /\ SubSeq(s, 1, Len(p)) = p

\* str.split(sep): cut at every occurrence of sep, leftmost first
RECURSIVE Split(_, _)
Split(s, sep) ==
    LET hits == { i \in 1..(Len(s) - Len(sep) + 1) :
                    SubSeq(s, i, i + Len(sep) - 1) = sep }
    IN  IF hits = {} THEN <<s>>
        ELSE LET i == CHOOSE h \in hits : \A k \in hits : h <= k
             IN  <<SubSeq(s, 1, i - 1)>>
                   \o Split(SubSeq(s, i + Len(sep), Len(s)), sep)

RECURSIVE NatVal(_)
NatVal(s) ==
    IF s = <<>> THEN 0
    ELSE NatVal(SubSeq(s, 1, Len(s) - 1)) * 10 + DigitVal(s[Len(s)])

AllDigits(s) == \A i \in 1..Len(s) : IsDigit(s[i])

\* float(text) on the decimal forms a whole-valued float prints as;
\* ok = FALSE stands for ValueError
ParseFloat(text) ==
    LET t == Strip(text)
        neg == t # <<>> /\ Head(t) = "-"
        body == IF neg THEN Tail(t) ELSE t
        parts == Split(body, <<".">>)
        whole == parts[1]
        frac == IF Len(parts) = 2 THEN parts[2] ELSE <<>>
        good == /\ Len(parts) <= 2
                /\ whole # <<>>
                /\ AllDigits(whole)
                /\ \A i \in 1..Len(frac) : frac[i] = "0"
    IN  IF good
        THEN [ok |-> TRUE, val |-> IF neg THEN 0 - NatVal(whole) ELSE NatVal(whole)]
        ELSE [ok |-> FALSE, val |-> 0]

IncomeTag == <<"I", "n", "c", "o", "m", "e", ":">>
SavingsTag == <<"S", "a", "v", "i", "n", "g", "s", ":">>
SavingsGoalTag == <<"S", "a", "v", "i", "n", "g", "s", "G", "o", "a", "l", ":">>
ExpensesTag == <<"E", "x", "p", "e", "n", "s", "e", "s", ":">>
CommaSpace == <<",", " ">>

\* ------------------------------------------------------- expenses (dict)
\* self.expenses: an insertion-ordered dict, category -> list of
\* (description, amount); modelled as a sequence of entries.
HasCategory(exp, c) == \E i \in 1..Len(exp) : exp[i].category = c

ItemsOf(exp, c) ==
    IF HasCategory(exp, c)
    THEN exp[CHOOSE i \in 1..Len(exp) : exp[i].category = c].items
    ELSE <<>>

\* mutant: the category's list is replaced by the new pair
AppendExpenseReplace(exp, c, d, a) ==
    IF HasCategory(exp, c)
    THEN [i \in 1..Len(exp) |->
            IF exp[i].category = c
            THEN [exp[i] EXCEPT !.items = <<<<d, a>>>>]
            ELSE exp[i]]
    ELSE Append(exp, [category |-> c, items |-> <<<<d, a>>>>])

\* if category not in self.expenses: self.expenses[category] = []
\* self.expenses[category].append((description, amount))
AppendExpense(exp, c, d, a) ==
    IF HasCategory(exp, c)
    THEN [i \in 1..Len(exp) |->
            IF exp[i].category = c
            THEN [exp[i] EXCEPT !.items = Append(@, <<d, a>>)]
            ELSE exp[i]]
    ELSE Append(exp, [category |-> c, items |-> <<<<d, a>>>>])

RECURSIVE SumItems(_)
SumItems(items) ==
    IF items = <<>> THEN 0 ELSE items[1][2] + SumItems(Tail(items))

RECURSIVE TotalExpenses(_)
TotalExpenses(exp) ==
    IF exp = <<>> THEN 0 ELSE SumItems(exp[1].items) + TotalExpenses(Tail(exp))

RECURSIVE CountExpenses(_)
CountExpenses(exp) ==
    IF exp = <<>> THEN 0 ELSE Len(exp[1].items) + CountExpenses(Tail(exp))

RECURSIVE ItemRows(_, _)
ItemRows(c, items) ==
    IF items = <<>> THEN <<>>
    ELSE <<[category |-> c, description |-> items[1][1], amount |-> items[1][2]]>>
           \o ItemRows(c, Tail(items))

\* for category, items in expenses.items(): for desc, amount in items
RECURSIVE Flatten(_)
Flatten(exp) ==
    IF exp = <<>> THEN <<>>
    ELSE ItemRows(exp[1].category, exp[1].items) \o Flatten(Tail(exp))

RECURSIVE SeqToBag(_)
SeqToBag(s) ==
    IF s = <<>> THEN EmptyBag ELSE SetToBag({s[1]}) (+) SeqToBag(Tail(s))

\* ------------------------------------------------------------- snapshot
NoFile == <<"no such file">>

ExpenseLine(row) ==
    row.category \o CommaSpace \o row.description \o CommaSpace \o FloatStr(row.amount)

\* save_data_to_file: the lines written to finance_data.txt
SaveDataToFileLines(inc, sav, goal, exp) ==
    LET rows == Flatten(exp)
    IN
    <<IncomeTag \o <<" ">> \o FloatStr(inc),
      SavingsTag \o <<" ">> \o FloatStr(sav),
      SavingsGoalTag \o <<" ">> \o FloatStr(goal),
      ExpensesTag>>
      \o [i \in 1..Len(rows) |-> ExpenseLine(rows[i])]

\* float(line.split(":")[1].strip()) of a header line
HeaderValue(line) == ParseFloat(Split(line, <<":">>)[2])

\* a parsed header value stored in its field, or the ValueError
Stored(st, field, f) ==
    IF f.ok THEN [st EXCEPT ![field] = f.val] ELSE [st EXCEPT !.error = TRUE]

\* category, description, amount = line.strip().split(", "), then the
\* INSERT and the append with float(amount)
ExpenseRead(st, fields) ==
    IF Len(fields) # 3 THEN [st EXCEPT !.error = TRUE]
    ELSE IF ~ParseFloat(fields[3]).ok THEN [st EXCEPT !.error = TRUE]
    ELSE [st EXCEPT
            !.rows = Append(@, [category |-> fields[1],
                                description |-> fields[2],
                                amount |-> ParseFloat(fields[3]).val]),
            !.expenses = AppendExpense(@, fields[1], fields[2],
                                       ParseFloat(fields[3]).val)]

\* the loop body of read_data_from_file; error = TRUE stands for the
\* ValueError that leaves the loop and the constructor
ReadLine(st, line) ==
    IF st.error THEN st
    ELSE IF StartsWith(line, IncomeTag) THEN Stored(st, "income", HeaderValue(line))
    ELSE IF StartsWith(line, SavingsTag) THEN Stored(st, "savings", HeaderValue(line))
    ELSE IF StartsWith(line, SavingsGoalTag) THEN
        Stored(st, "savings_goal", HeaderValue(line))
    ELSE IF StartsWith(line, ExpensesTag) THEN
        [st EXCEPT !.in_expenses_section = TRUE]
    ELSE IF st.in_expenses_section /\ Strip(line) # <<>> THEN
        ExpenseRead(st, Split(Strip(line), CommaSpace))
    ELSE st

RECURSIVE ReadLines(_, _)
ReadLines(st, lines) ==
    IF lines = <<>> THEN st ELSE ReadLines(ReadLine(st, Head(lines)), Tail(lines))

\* FinancialRecord.__init__ and FinanceData.__init__ defaults
Fresh ==
    [income |-> 0, savings |-> 0, savings_goal |-> 0, expenses |-> <<>>,
     rows |-> <<>>, in_expenses_section |-> FALSE, error |-> FALSE,
     original_savings |-> 0]

\* mutant: the load does not clear the table first
LoadedKeep(r, olddb) ==
    IF r.error THEN [r EXCEPT !.rows = olddb]
    ELSE [r EXCEPT !.original_savings = r.savings, !.rows = olddb \o @]

\* the end of read_data_from_file, r being what the loop left: DELETE and
\* the INSERTs are one transaction, committed when the file was read to
\* the end (then self.original_savings = self.savings), rolled back when a
\* line raised
Loaded(r, olddb) ==
    IF r.error THEN [r EXCEPT !.rows = olddb]
    ELSE [r EXCEPT !.original_savings = r.savings]

\* read_data_from_file: the fields it leaves in self and the table it
\* leaves in the database; a missing file leaves the defaults and the
\* emptied table
ReadDataFromFile(file, olddb) ==
    IF file = NoFile THEN Fresh ELSE Loaded(ReadLines(Fresh, file), olddb)

\* ------------------------------------------------------------ operations
\* mutant: the amount is added whatever its sign
AddIncomeUnguarded(inc, amount) == inc + amount

\* add_income
AddIncomeValue(inc, amount) == IF amount > 0 THEN inc + amount ELSE inc

\* mutant: the goal is stored whatever its sign
SetSavingsGoalUnguarded(old, goal) == goal

\* set_savings_goal
SetSavingsGoalValue(old, goal) == IF goal >= 0 THEN goal ELSE old

\* mutant: savings are not clamped at 0
AdjustSavingsNoClamp(inc, sav, def, exp) ==
    LET budget == inc - TotalExpenses(exp)
    IN  IF budget < 0
        THEN [deficit |-> 0 - budget, savings |-> sav - (0 - budget)]
        ELSE [deficit |-> def, savings |-> sav]

\* adjust_savings_if_needed
AdjustSavings(inc, sav, def, exp) ==
    LET budget == inc - TotalExpenses(exp)
    IN  IF budget < 0
        THEN [deficit |-> 0 - budget,
              savings |-> IF sav - (0 - budget) < 0 THEN 0 ELSE sav - (0 - budget)]
        ELSE [deficit |-> def, savings |-> sav]

\* mutant: the row is not inserted
SaveExpenseToDbSkip(rows, c, d, a) == rows

\* save_expense_to_db
SaveExpenseToDb(rows, c, d, a) ==
    Append(rows, [category |-> c, description |-> d, amount |-> a])

\* ----------------------------------------------------------------- state
VARIABLES
    income, savings, savings_goal,      \* FinancialRecord fields
    expenses, original_savings, deficit,\* FinanceData fields
    raised,          \* TRUE when FinanceData() raised: no ledger object
    text_file,       \* contents of finance_data.txt, or NoFile
    database,        \* rows of table expenses in finance_data.db, by id
    lastCall         \* the call that produced this state: name, number, flag

vars == <<income, savings, savings_goal, expenses, original_savings, deficit,
          raised, text_file, database, lastCall>>

Call(op, a, flag) == [op |-> op, amount |-> a, save_to_db |-> flag]

\* what the first run finds on disk: no snapshot, or the snapshot the
\* program is shipped with (test_adjust_savings expects positive savings
\* in it; no call of the program raises savings); the table may hold rows
\* of an earlier run
InitFiles ==
    {NoFile, SaveDataToFileLines(0, 3, 0, <<>>)}

InitTables ==
    { <<>>, <<[category |-> <<"A">>, description |-> <<"x">>, amount |-> 1]>> }

Init ==
    \E file \in InitFiles, olddb \in InitTables :
        \E r \in {ReadDataFromFile(file, olddb)} :
            /\ income = r.income
            /\ savings = r.savings
            /\ savings_goal = r.savings_goal
            /\ expenses = r.expenses
            /\ original_savings = r.original_savings
            /\ deficit = 0
            /\ raised = r.error
            /\ database = r.rows
            /\ text_file = file
            /\ lastCall = Call("FinanceData", 0, FALSE)

\* FinanceData() again: the process exits and a new run constructs the
\* ledger from what is on disk
Restart ==
    \E r \in {ReadDataFromFile(text_file, database)} :
        /\ income' = r.income
        /\ savings' = r.savings
        /\ savings_goal' = r.savings_goal
        /\ expenses' = r.expenses
        /\ original_savings' = r.original_savings
        /\ deficit' = 0
        /\ raised' = r.error
        /\ database' = r.rows
        /\ lastCall' = Call("FinanceData", 0, FALSE)
        /\ UNCHANGED text_file

\* add_income(amount); save_data() is the base-class method, which passes
AddIncome ==
    \E amount \in AmountInputs :
        /\ ~raised
        /\ income + amount <= MaxIncome
        /\ income' = AddIncomeValue(income, amount)
        /\ lastCall' = Call("add_income", amount, FALSE)
        /\ UNCHANGED <<savings, savings_goal, expenses, original_savings, deficit,
                       raised, text_file, database>>

\* set_savings_goal(goal); save_data() passes
SetSavingsGoal ==
    \E goal \in GoalInputs :
        /\ ~raised
        /\ savings_goal' = SetSavingsGoalValue(savings_goal, goal)
        /\ lastCall' = Call("set_savings_goal", goal, FALSE)
        /\ UNCHANGED <<income, savings, expenses, original_savings, deficit,
                       raised, text_file, database>>

\* add_expense(category, description, amount, save_to_db)
AddExpense ==
    \E c \in Categories, d \in Descriptions, amount \in AmountInputs, flag \in BOOLEAN :
        /\ ~raised
        /\ TotalExpenses(expenses) + amount <= MaxTotal
        /\ lastCall' = Call("add_expense", amount, flag)
        /\ IF amount > 0
           THEN \E exp \in {AppendExpense(expenses, c, d, amount)} :
                \E adj \in {AdjustSavings(income, savings, deficit, exp)} :
                    /\ expenses' = exp
                    /\ database' = IF flag THEN SaveExpenseToDb(database, c, d, amount)
                                   ELSE database
                    /\ savings' = adj.savings
                    /\ deficit' = adj.deficit
                    /\ text_file' = SaveDataToFileLines(income, adj.savings, savings_goal, exp)
                    /\ UNCHANGED <<income, savings_goal, original_savings, raised>>
           ELSE UNCHANGED <<income, savings, savings_goal, expenses, original_savings,
                            deficit, raised, text_file, database>>

\* adjust_savings_if_needed(), called on its own; save_data() passes
AdjustSavingsIfNeeded ==
    \E adj \in {AdjustSavings(income, savings, deficit, expenses)} :
        /\ ~raised
        /\ savings' = adj.savings
        /\ deficit' = adj.deficit
        /\ lastCall' = Call("adjust_savings_if_needed", 0, FALSE)
        /\ UNCHANGED <<income, savings_goal, expenses, original_savings,
                       raised, text_file, database>>

\* save_data_to_file(), called on its own
SaveDataToFile ==
    /\ ~raised
    /\ text_file' = SaveDataToFileLines(income, savings, savings_goal, expenses)
    /\ lastCall' = Call("save_data_to_file", 0, FALSE)
    /\ UNCHANGED <<income, savings, savings_goal, expenses, original_savings,
                   deficit, raised, database>>

Next ==
    \/ AddIncome
    \/ SetSavingsGoal
    \/ AddExpense
    \/ AdjustSavingsIfNeeded
    \/ SaveDataToFile
    \/ Restart

Spec == Init /\ [][Next]_vars

\* one process run in which only the three ledger mutations are called
NextLedger ==
    \/ AddIncome
    \/ SetSavingsGoal
    \/ AddExpense

SpecLedger == Init /\ [][NextLedger]_vars

\* ---------------------------------------------------------------- claims
Max(a, b) == IF a >= b THEN a ELSE b

CategoriesOf(exp) == { exp[i].category : i \in 1..Len(exp) }

\* dict equality: same keys, same list under each key
SameMapping(e1, e2) ==
    /\ CategoriesOf(e1) = CategoriesOf(e2)
    /\ \A c \in CategoriesOf(e1) : ItemsOf(e1, c) = ItemsOf(e2, c)

Shortfall == Max(0, TotalExpenses(expenses) - income)

Mirrored == SeqToBag(database) = SeqToBag(Flatten(expenses))

\* what a ledger constructed now would load
Reloaded == ReadDataFromFile(text_file, database)

ReloadsCurrentState ==
    /\ ~Reloaded.error
    /\ Reloaded.income = income
    /\ Reloaded.savings = savings
    /\ Reloaded.savings_goal = savings_goal
    /\ SameMapping(Reloaded.expenses, expenses)

\* C1: after every add_expense call with amount > 0, whatever add_income,
\* set_savings_goal and add_expense calls came before, deficit equals
\* max(0, total expenses - income).  Checked under SpecLedger.
C1_DeficitIsShortfall ==
    (lastCall.op = "add_expense" /\ lastCall.amount > 0) => deficit = Shortfall

\* C2: after every successful mutation (add_income with amount > 0,
\* set_savings_goal with goal >= 0, add_expense with amount > 0) the snapshot
\* file holds the current income, savings, savings goal and expenses: a
\* ledger constructed right away loads exactly those values.
C2_SnapshotIsCurrent ==
    (\/ lastCall.op = "add_income" /\ lastCall.amount > 0
     \/ lastCall.op = "set_savings_goal" /\ lastCall.amount >= 0
     \/ lastCall.op = "add_expense" /\ lastCall.amount > 0)
    => ReloadsCurrentState

\* C3 as stated: after construction and after every add_expense call, for
\* either value of save_to_db, the rows of the table are, as a multiset,
\* the flattened expenses mapping.
C3_StoreMirrorsAlways ==
    (lastCall.op \in {"FinanceData", "add_expense"} /\ ~raised) => Mirrored

\* C3 as amended: a construction that succeeds leaves the table holding, as
\* a multiset, exactly the flattened expenses mapping (no row of an earlier
\* run); an add_expense call with save_to_db = TRUE keeps the two equal; an
\* add_expense call with save_to_db = FALSE leaves the table as it was.
C3_StoreMirrors ==
    [][ /\ (lastCall'.op = "FinanceData" /\ ~raised') => Mirrored'
        /\ (lastCall'.op = "add_expense" /\ lastCall'.save_to_db /\ Mirrored)
              => Mirrored'
        /\ (lastCall'.op = "add_expense" /\ ~lastCall'.save_to_db)
              => database' = database ]_vars

C3_Witness ==
    /\ lastCall.op = "FinanceData"
    /\ ~raised
    /\ Len(database) = 2
    /\ CountExpenses(expenses) = 2

\* C4: on a ledger with income I, savings S and no expenses, add_expense
\* with amount A > I followed by a call of adjust_savings_if_needed gives
\* deficit = A - I and savings = max(S - (A - I), 0).  The step checked is
\* the adjust_savings_if_needed call made right after the add_expense call
\* that recorded the only expense; a ledger without expenses has
\* savings = original_savings, so S is original_savings.
C4_AdjustAfterFirstExpense ==
    [][ ( /\ lastCall.op = "add_expense"
          /\ lastCall.amount > 0
          /\ CountExpenses(expenses) = 1
          /\ lastCall.amount > income
          /\ lastCall'.op = "adjust_savings_if_needed" )
        => /\ deficit' = lastCall.amount - income
           /\ savings' = Max(original_savings - (lastCall.amount - income), 0) ]_vars

\* C5: from a fresh ledger or one loaded from a snapshot, savings >= 0 in
\* every state reached by add_income, set_savings_goal, add_expense and
\* adjust_savings_if_needed calls (and by later runs loading what was saved).
C5_SavingsNonNegative == savings >= 0

\* the second deduction of a shortfall larger than what was left: clamped
C5_Witness ==
    /\ lastCall.op = "adjust_savings_if_needed"
    /\ CountExpenses(expenses) = 1
    /\ savings = 0
    /\ original_savings > deficit
    /\ 2 * deficit > original_savings

\* C6: round trip: in every state reached through add_income,
\* set_savings_goal and add_expense, writing the snapshot and constructing
\* a ledger from it gives the same income, savings, savings goal and
\* expenses mapping.
C6_RoundTrip ==
    lastCall.op = "save_data_to_file" => ReloadsCurrentState

LedgerUnchanged ==
    UNCHANGED <<income, savings, savings_goal, deficit, expenses, text_file, database>>

\* C7 as stated: add_income with amount <= 0, add_expense with amount <= 0
\* and set_savings_goal with goal <= 0 change nothing.
C7_NonPositiveIgnored ==
    [][ (/\ lastCall'.op \in {"add_income", "add_expense", "set_savings_goal"}
         /\ lastCall'.amount <= 0)
        => LedgerUnchanged ]_vars

\* C7 as amended: add_income with amount <= 0, add_expense with amount <= 0
\* and set_savings_goal with goal < 0 leave income, savings, savings goal,
\* deficit, expenses, the snapshot and the table unchanged.
C7_Ignored ==
    [][ (\/ lastCall'.op \in {"add_income", "add_expense"} /\ lastCall'.amount <= 0
         \/ lastCall'.op = "set_savings_goal" /\ lastCall'.amount < 0)
        => LedgerUnchanged ]_vars

C7_Witness ==
    /\ lastCall.op = "set_savings_goal"
    /\ lastCall.amount < 0
    /\ savings_goal = 1
    /\ expenses # <<>>

C9_AddIncome ==
    [][ lastCall'.op = "add_income"
        => IF lastCall'.amount > 0
           THEN /\ income' = income + lastCall'.amount
                /\ UNCHANGED <<savings, savings_goal, deficit, expenses>>
           ELSE income' = income ]_vars

C9_Witness ==
    /\ lastCall.op = "add_income"
    /\ lastCall.amount > 0
    /\ income > lastCall.amount
    /\ expenses # <<>>

\* C10: the shortfall is deducted from savings once: with S0 the savings at
\* load time, after any add_income and add_expense calls
\* savings = max(S0 - max(0, total expenses - income), 0); stated at the
\* states an add_expense call with amount > 0 produces.  Checked under
\* SpecLedger.
C10_DeductedOnce ==
    (lastCall.op = "add_expense" /\ lastCall.amount > 0)
    => savings = Max(original_savings - Shortfall, 0)

====
